---------------------------- MODULE Spec2Model ----------------------------
(***************************************************************************)
(* Model of the HTTP access-logging middleware of                          *)
(* middleware/logging/apache.go: the responseWrapper (status and byte      *)
(* count observer), formatLogEntry, ApacheLogMiddleware, the rotating sink *)
(* behind the zap logger, secureLogFile and SecureRotatedLogs.             *)
(*                                                                         *)
(* The specifications share the variables:                                 *)
(*   Spec          requests served concurrently through the middleware     *)
(*                 and one shared rotating sink;                           *)
(*   SpecGuardian  one SecureRotatedLogs pass over the log directory while *)
(*                 a rotation deletes, renames and creates files;          *)
(*   SpecSecure    consecutive secureLogFile calls on one path;            *)
(*   SpecFormat    formatLogEntry applied to one observation in both       *)
(*                 formats;                                                *)
(*   SpecMain      main.go: the guardian goroutine on its ticker, the      *)
(*                 shutdown sequence of main and the exit of the process.  *)
(***************************************************************************)
EXTENDS Integers, Sequences, FiniteSets, TLC

(***************************************************************************)
(* Bounds of the model.                                                    *)
(***************************************************************************)
NumReqs == 2          \* requests served concurrently
MaxCalls == 2         \* calls the handlers of one run make on their ResponseWriters
MaxWriteLen == 2      \* len(b) of one Write
MaxLines == 2         \* lines the live file holds before it is rotated
MaxBackups == 1       \* rotated files the sink retains
MaxRotations == 1     \* rotations that run during one SecureRotatedLogs pass
MaxSecureCalls == 2   \* consecutive secureLogFile calls
MaxTicks == 2         \* ticks the ticker sends during one run of main

Reqs == 1..NumReqs

VARIABLES
  format,      \* LogFormat the middleware was built with
  pc,          \* per request: position in the ApacheLogMiddleware closure
  wrapper,     \* per request: responseWrapper{status, size}
  under,       \* per request: the wrapped http.ResponseWriter (status sent, bytes accepted)
  lastWrite,   \* per request, while the handler runs: what its last Write returned
               \* (the wrapper's result and the underlying writer's)
  hdrFirst,    \* per request: the first status the handler passed to WriteHeader, 0 if none
  hdrCount,    \* per request: number of WriteHeader calls the handler made
  calls,       \* calls the handlers have made on their ResponseWriters so far
  entry,       \* per request: the logEntry local (formatted line), "" before it is set
  infoCalls,   \* per request: number of logger.Info calls made
  live,        \* the live log file: its lines
  backups,     \* rotated files, most recent first, each a sequence of lines
  pruned,      \* lines of the rotated files retention has deleted
  order,       \* the appends attempted, in order: [req, ok]
  fs,          \* the log directory: name of each file in it -> its permission bits
  dirExists,   \* whether the log directory exists
  writable,    \* whether the process may create entries in and under the log directory
  denied,      \* names whose chmod fails with a permission error (not the owner)
  umask,       \* the process's file mode creation mask
  rotations,   \* rotations started since the pass began
  rotating,    \* the rotated name the live file was just renamed to, <<>> when none
  gpc,         \* SecureRotatedLogs: "idle" | "stat" | "chmod" | "done"
  matches,     \* SecureRotatedLogs: the result of filepath.Glob
  gi,          \* SecureRotatedLogs: index of the candidate of this iteration
  gerr,        \* SecureRotatedLogs: the returned error, "nil" when none
  atStart,     \* the log directory as it was when the pass began
  secCalls,    \* secureLogFile: the errors the calls so far returned
  secBefore,   \* secureLogFile: <<dirExists, fs>> before the last call
  fmtHeader,   \* formatLogEntry: r.Header of the request, header name -> values
  fmtWrapper,  \* formatLogEntry: the responseWrapper of the request
  fmtLines,    \* formatLogEntry: LogFormat -> the line returned, "" before the call
  mainPc,      \* main: "quit" | "cancel" | "shutdown" | "final" | "return" | "exited"
  taskPc,      \* the guardian goroutine: "select" | "pass" | "returned" | "killed"
  tickReady,   \* ticker.C holds a tick
  ticks,       \* ticks the ticker has sent
  ctxDone,     \* ctx.Done() is closed
  taken,       \* ticks the goroutine has received from ticker.C
  passes,      \* SecureRotatedLogs calls of the goroutine that have returned
  reported,    \* serverLogger.Error calls of the goroutine
  serverDown,  \* server.Shutdown has returned nil
  finalPasses, \* SecureRotatedLogs calls of main that have returned
  exitCode     \* exit status of the process, -1 while it runs

mwVars == <<format, pc, wrapper, under, lastWrite, hdrFirst, hdrCount, calls, entry,
            infoCalls, live, backups, pruned, order>>
fsVars == <<fs, dirExists, writable, denied, umask>>
guardVars == <<rotations, rotating, gpc, matches, gi, gerr, atStart>>
secVars == <<secCalls, secBefore>>
fmtVars == <<fmtHeader, fmtWrapper, fmtLines>>
mainVars == <<mainPc, taskPc, tickReady, ticks, ctxDone, taken, passes, reported,
              serverDown, finalPasses, exitCode>>
vars == <<mwVars, fsVars, guardVars, secVars, fmtVars, mainVars>>

(***************************************************************************)
(* LogFormat                                                               *)
(***************************************************************************)
CommonLogFormat == "common"
CombinedLogFormat == "combined"

(***************************************************************************)
(* The requests: what the server hands the middleware.  start is the       *)
(* instant time.Now() returned at the closure's entry.                     *)
(***************************************************************************)
Request(r) ==
  [RemoteAddr |-> "1.2.3." \o ToString(r),
   Method |-> "GET",
   RequestURI |-> "/api/hello",
   Proto |-> "HTTP/1.1",
   Referer |-> IF r % 2 = 0 THEN "http://ref/" ELSE "",
   UserAgent |-> IF r % 2 = 1 THEN "curl" ELSE "",
   start |-> [day |-> 10, month |-> 10, year |-> 2023,
              hour |-> 13, minute |-> 55, second |-> 30 + r, zone |-> 0]]

Pad2(n) == IF n < 10 THEN "0" \o ToString(n) ELSE ToString(n)

MonthName(m) ==
  <<"Jan", "Feb", "Mar", "Apr", "May", "Jun",
    "Jul", "Aug", "Sep", "Oct", "Nov", "Dec">>[m]

\* -0700 of the layout: sign, two digits of hours, two of minutes (zone in minutes)
ZoneFormat(z) ==
  LET a == IF z < 0 THEN 0 - z ELSE z
  IN (IF z < 0 THEN "-" ELSE "+") \o Pad2(a \div 60) \o Pad2(a % 60)

\* start.Format("[02/Jan/2006:15:04:05 -0700]")
TimeFormat(t) ==
  "[" \o Pad2(t.day) \o "/" \o MonthName(t.month) \o "/" \o ToString(t.year)
      \o ":" \o Pad2(t.hour) \o ":" \o Pad2(t.minute) \o ":" \o Pad2(t.second)
      \o " " \o ZoneFormat(t.zone) \o "]"

\* the base entry: Sprintf("%s - - %s \"%s %s %s\" %d %d", ...)
CommonEntry(req, w) ==
  req.RemoteAddr \o " - - " \o TimeFormat(req.start)
    \o " \"" \o req.Method \o " " \o req.RequestURI \o " " \o req.Proto \o "\" "
    \o ToString(w.status) \o " " \o ToString(w.size)

formatLogEntryEmptyQuotes(req, w, fmt) ==
  IF fmt = CombinedLogFormat
  THEN CommonEntry(req, w) \o " \"" \o req.Referer \o "\" \"" \o req.UserAgent \o "\""
  ELSE CommonEntry(req, w)

formatLogEntry(req, w, fmt) ==
  IF fmt = CombinedLogFormat
  THEN LET referer == IF req.Referer = "" THEN "-" ELSE req.Referer
           userAgent == IF req.UserAgent = "" THEN "-" ELSE req.UserAgent
       IN CommonEntry(req, w) \o " \"" \o referer \o "\" \"" \o userAgent \o "\""
  ELSE CommonEntry(req, w)


(***************************************************************************)
(* responseWrapper and the wrapped http.ResponseWriter                     *)
(***************************************************************************)
DefaultStatus == 200
Statuses == {404, 500}        \* statuses a handler sets explicitly
NoError == "nil"
WriteErrors == {NoError, "broken pipe"}

\* what the underlying writer may answer to Write(b) with len(b) = b: a count
\* 0..b and an error, the error non-nil exactly when the count is short (io.Writer)
WriteOutcomes(b) ==
  {o \in [n : 0..b, err : WriteErrors] : o.n < b <=> o.err # NoError}

NewWrapperNoDefault == [status |-> 0, size |-> 0]

\* the wrapper the closure builds for each request
NewWrapper == [status |-> DefaultStatus, size |-> 0]

NoWrapper == [status |-> 0, size |-> 0]
NoWrite == [ret |-> <<0, NoError>>, under |-> <<0, NoError>>]

\* http.ResponseWriter.WriteHeader: the first status is sent, later ones are superfluous
underWriteHeader(u, status) ==
  IF u.status = 0 THEN [u EXCEPT !.status = status] ELSE u

\* http.ResponseWriter.Write: an implicit WriteHeader(200), then n bytes are accepted
underWrite(u, n) ==
  [status |-> IF u.status = 0 THEN DefaultStatus ELSE u.status,
   written |-> u.written + n]

\* rw.status = status
rwWriteHeader(w, status) == [w EXCEPT !.status = status]

rwWriteRequested(w, b, n) == [w EXCEPT !.size = @ + b]

\* size, err := rw.ResponseWriter.Write(b); rw.size += size
rwWrite(w, b, n) == [w EXCEPT !.size = @ + n]

\* return size, err
rwWriteResult(o) == <<o.n, o.err>>

(***************************************************************************)
(* formatLogEntry on one observation: the request's headers and wrapper    *)
(* are the inputs, the line of each format the output.                     *)
(***************************************************************************)
LogFormats == {CommonLogFormat, CombinedLogFormat}
NoLines == [f \in LogFormats |-> ""]

RefererKey == "Referer"
UserAgentKey == "User-Agent"

\* r.Header as the server parsed it: a header is absent, or has one value
\* (possibly empty), or several
Headers ==
  LET Merge(f, g) == [k \in DOMAIN f \cup DOMAIN g |-> IF k \in DOMAIN f THEN f[k] ELSE g[k]]
      Field(key, values) == {<<>>} \cup {[k \in {key} |-> v] : v \in values}
  IN {Merge(a, b) :
        a \in Field(RefererKey, {<<"">>, <<"http://ref/">>}),
        b \in Field(UserAgentKey, {<<"">>, <<"curl">>, <<"curl", "wget">>})}

\* r.Header.Get(key): the first value of the key, "" when there is none
HeaderGet(h, key) ==
  IF key \in DOMAIN h /\ h[key] # <<>> THEN h[key][1] ELSE ""

\* the request formatLogEntry is handed: the fields it reads
RequestWith(h) ==
  [Request(1) EXCEPT !.Referer = HeaderGet(h, RefererKey),
                     !.UserAgent = HeaderGet(h, UserAgentKey)]

\* the wrappers a handler can leave: a status and a byte count
Wrappers == [status : {DefaultStatus} \cup Statuses, size : 0..MaxWriteLen]

\* a request arrives with headers h and its handler leaves wrapper w
FormatObserve(h, w) ==
  /\ fmtHeader' = h
  /\ fmtWrapper' = w
  /\ fmtLines' = NoLines
  /\ UNCHANGED <<mwVars, fsVars, guardVars, secVars, mainVars>>

\* formatLogEntry(r, wrapper, start, fmt) is called and returns
FormatCall(fmt) ==
  /\ fmtLines' = [fmtLines EXCEPT ![fmt] =
                    formatLogEntry(RequestWith(fmtHeader), fmtWrapper, fmt)]
  /\ UNCHANGED <<fmtHeader, fmtWrapper, mwVars, fsVars, guardVars, secVars, mainVars>>

(***************************************************************************)
(* ApacheLogMiddleware: the closure serving one request                    *)
(***************************************************************************)
sinkUnchanged == UNCHANGED <<live, backups, pruned, order>>
otherUnchanged == UNCHANGED <<fsVars, guardVars, secVars, fmtVars, mainVars>>

\* start := time.Now(); wrapper := &responseWrapper{...}; next.ServeHTTP is entered
Begin(r) ==
  /\ pc[r] = "idle"
  /\ pc' = [pc EXCEPT ![r] = "serving"]
  /\ wrapper' = [wrapper EXCEPT ![r] = NewWrapper]
  /\ UNCHANGED <<format, under, lastWrite, hdrFirst, hdrCount, calls, entry, infoCalls>>
  /\ sinkUnchanged /\ otherUnchanged

\* the handler calls wrapper.WriteHeader(status)
WriteHeader(r, status) ==
  /\ pc[r] = "serving"
  /\ calls < MaxCalls
  /\ wrapper' = [wrapper EXCEPT ![r] = rwWriteHeader(@, status)]
  /\ under' = [under EXCEPT ![r] = underWriteHeader(@, status)]
  /\ hdrFirst' = [hdrFirst EXCEPT ![r] = IF hdrCount[r] = 0 THEN status ELSE @]
  /\ hdrCount' = [hdrCount EXCEPT ![r] = @ + 1]
  /\ calls' = calls + 1
  /\ UNCHANGED <<format, pc, lastWrite, entry, infoCalls>>
  /\ sinkUnchanged /\ otherUnchanged

\* the handler calls wrapper.Write(b), len(b) = b; the underlying writer answers o
Write(r, b, o) ==
  /\ pc[r] = "serving"
  /\ calls < MaxCalls
  /\ under' = [under EXCEPT ![r] = underWrite(@, o.n)]
  /\ wrapper' = [wrapper EXCEPT ![r] = rwWrite(@, b, o.n)]
  /\ lastWrite' = [lastWrite EXCEPT ![r] =
                     [ret |-> rwWriteResult(o), under |-> <<o.n, o.err>>]]
  /\ calls' = calls + 1
  /\ UNCHANGED <<format, pc, hdrFirst, hdrCount, entry, infoCalls>>
  /\ sinkUnchanged /\ otherUnchanged

\* next.ServeHTTP(wrapper, r) returns
HandlerReturn(r) ==
  /\ pc[r] = "serving"
  /\ pc' = [pc EXCEPT ![r] = "returned"]
  /\ lastWrite' = [lastWrite EXCEPT ![r] = NoWrite]
  /\ UNCHANGED <<format, wrapper, under, hdrFirst, hdrCount, calls, entry,
                 infoCalls>>
  /\ sinkUnchanged /\ otherUnchanged

\* next.ServeHTTP panics: the closure has no defer and no recover, so the panic
\* leaves the frame and the statements after the call do not run
HandlerPanic(r) ==
  /\ pc[r] = "serving"
  /\ pc' = [pc EXCEPT ![r] = "panicked"]
  /\ lastWrite' = [lastWrite EXCEPT ![r] = NoWrite]
  /\ UNCHANGED <<format, wrapper, under, hdrFirst, hdrCount, calls, entry,
                 infoCalls>>
  /\ sinkUnchanged /\ otherUnchanged

LogEntryShared(r) == formatLogEntry(Request(r), wrapper[1], format)

\* logEntry := formatLogEntry(r, wrapper, start, format)
LogEntryOf(r) == formatLogEntry(Request(r), wrapper[r], format)

\* the entry is formatted and logger.Info(logEntry) is called
LogRequest(r) ==
  /\ pc[r] = "returned"
  /\ pc' = [pc EXCEPT ![r] = "info"]
  /\ entry' = [entry EXCEPT ![r] = LogEntryOf(r)]
  /\ infoCalls' = [infoCalls EXCEPT ![r] = @ + 1]
  /\ UNCHANGED <<format, wrapper, under, lastWrite, hdrFirst, hdrCount, calls>>
  /\ sinkUnchanged /\ otherUnchanged

AfterInfoFatal(r, ok) ==
  pc' = [pc EXCEPT ![r] = IF ok THEN "done" ELSE "panicked"]

\* logger.Info returns nothing: whatever the write did, the closure returns
AfterInfo(r, ok) == pc' = [pc EXCEPT ![r] = "done"]

(***************************************************************************)
(* The rotating sink behind the logger (lumberjack.Logger under zap):      *)
(* writes serialised by one mutex, rotation when the live file is full,    *)
(* retention of MaxBackups rotated files.                                  *)
(***************************************************************************)
RECURSIVE Flatten(_)
Flatten(fileSeq) ==
  IF fileSeq = <<>> THEN <<>> ELSE Head(fileSeq) \o Flatten(Tail(fileSeq))

\* the rotated files kept and the lines of those deleted
Retained(bs) == IF Len(bs) > MaxBackups THEN SubSeq(bs, 1, MaxBackups) ELSE bs
Deleted(bs) ==
  IF Len(bs) > MaxBackups THEN Flatten(SubSeq(bs, MaxBackups + 1, Len(bs))) ELSE <<>>

\* the write fails (disk full, permission revoked): nothing is appended, the
\* error stays inside the logger
SinkWriteFail(r) ==
  /\ pc[r] = "info"
  /\ order' = Append(order, [req |-> r, ok |-> FALSE])
  /\ AfterInfo(r, FALSE)
  /\ UNCHANGED <<format, wrapper, under, lastWrite, hdrFirst, hdrCount, calls, entry,
                 infoCalls, live, backups, pruned>>
  /\ otherUnchanged

\* the write, under the sink's mutex: a rotation when the line does not fit the
\* live file, then the append
SinkWrite(r) ==
  /\ pc[r] = "info"
  /\ \/ /\ Len(live) + 1 > MaxLines
        /\ live' = <<entry[r]>>
        /\ backups' = Retained(<<live>> \o backups)
        /\ pruned' = pruned \o Deleted(<<live>> \o backups)
     \/ /\ Len(live) + 1 <= MaxLines
        /\ live' = Append(live, entry[r])
        /\ UNCHANGED <<backups, pruned>>
  /\ order' = Append(order, [req |-> r, ok |-> TRUE])
  /\ AfterInfo(r, TRUE)
  /\ UNCHANGED <<format, wrapper, under, lastWrite, hdrFirst, hdrCount, calls, entry,
                 infoCalls>>
  /\ otherUnchanged

(***************************************************************************)
(* Spec: NumReqs requests through one middleware and one sink              *)
(***************************************************************************)
\* the log an earlier run of the server left: a live file and one rotated file
OldLine == "old"

InitFsIdle ==
  /\ fs = <<>> /\ dirExists = TRUE /\ writable = TRUE /\ denied = {} /\ umask = 0

InitGuardIdle ==
  /\ rotations = 0 /\ rotating = <<>>
  /\ gpc = "idle" /\ matches = <<>> /\ gi = 0 /\ gerr = NoError /\ atStart = <<>>

InitSecureIdle == secCalls = <<>> /\ secBefore = <<>>

InitFormatIdle == fmtHeader = <<>> /\ fmtWrapper = NoWrapper /\ fmtLines = NoLines

\* main has not started the guardian goroutine
InitMainIdle ==
  /\ mainPc = "quit" /\ taskPc = "select" /\ tickReady = FALSE /\ ticks = 0
  /\ ctxDone = FALSE /\ taken = 0 /\ passes = 0 /\ reported = 0
  /\ serverDown = FALSE /\ finalPasses = 0 /\ exitCode = -1

InitMwIdle ==
  /\ format = CommonLogFormat
  /\ pc = [r \in Reqs |-> "idle"]
  /\ wrapper = [r \in Reqs |-> NoWrapper]
  /\ under = [r \in Reqs |-> [status |-> 0, written |-> 0]]
  /\ lastWrite = [r \in Reqs |-> NoWrite]
  /\ hdrFirst = [r \in Reqs |-> 0]
  /\ hdrCount = [r \in Reqs |-> 0]
  /\ calls = 0
  /\ entry = [r \in Reqs |-> ""]
  /\ infoCalls = [r \in Reqs |-> 0]
  /\ live = <<>> /\ backups = <<>> /\ pruned = <<>> /\ order = <<>>

Init ==
  /\ format \in {CommonLogFormat, CombinedLogFormat}
  /\ pc = [r \in Reqs |-> "idle"]
  /\ wrapper = [r \in Reqs |-> NoWrapper]
  /\ under = [r \in Reqs |-> [status |-> 0, written |-> 0]]
  /\ lastWrite = [r \in Reqs |-> NoWrite]
  /\ hdrFirst = [r \in Reqs |-> 0]
  /\ hdrCount = [r \in Reqs |-> 0]
  /\ calls = 0
  /\ entry = [r \in Reqs |-> ""]
  /\ infoCalls = [r \in Reqs |-> 0]
  /\ live = <<OldLine>>
  /\ backups = << <<OldLine>> >>
  /\ pruned = <<>>
  /\ order = <<>>
  /\ InitFsIdle /\ InitGuardIdle /\ InitSecureIdle /\ InitFormatIdle /\ InitMainIdle

Next ==
  \E r \in Reqs :
    \/ Begin(r)
    \/ \E status \in Statuses : WriteHeader(r, status)
    \/ \E b \in 1..MaxWriteLen : \E o \in WriteOutcomes(b) : Write(r, b, o)
    \/ HandlerReturn(r)
    \/ HandlerPanic(r)
    \/ LogRequest(r)
    \/ SinkWrite(r)
    \/ SinkWriteFail(r)

Spec == Init /\ [][Next]_vars


(***************************************************************************)
(* Paths and permission bits.  A path is a sequence of one-character       *)
(* strings; a mode is the number its nine permission bits spell.           *)
(***************************************************************************)
Oct(a, b, c) == a * 64 + b * 8 + c
SecureFileMode == Oct(6, 4, 0)         \* 0640
FileModes == {Oct(6, 4, 0), Oct(6, 4, 4), Oct(6, 0, 0)}
Umasks == {0, Oct(0, 2, 2), Oct(0, 2, 7), Oct(0, 7, 7)}

\* perm &^ umask: the mode a file created with perm gets ("perm (before umask)")
RECURSIVE AndNot(_, _)
AndNot(perm, mask) ==
  IF perm = 0 THEN 0
  ELSE (IF perm % 2 = 1 /\ mask % 2 = 0 THEN 1 ELSE 0)
         + 2 * AndNot(perm \div 2, mask \div 2)

LogPath == <<"/", "v", "/", "a", ".", "l">>

\* index of the last occurrence of c in path, 0 when there is none
LastIndex(path, c) ==
  LET at == {i \in DOMAIN path : path[i] = c}
  IN IF at = {} THEN 0 ELSE CHOOSE i \in at : \A j \in at : j <= i

\* filepath.Split: the file, what follows the last separator
SplitFile(path) == SubSeq(path, LastIndex(path, "/") + 1, Len(path))

\* filepath.Ext: the suffix from the last dot of the last element on
Ext(path) ==
  LET file == SplitFile(path)
      dot == LastIndex(file, ".")
  IN IF dot = 0 THEN <<>> ELSE SubSeq(file, dot, Len(file))

\* base := file[:len(file)-len(ext)]
Base(file) == SubSeq(file, 1, Len(file) - Len(Ext(file)))

\* base + "*" + ext + "*", matched against the names of the directory
Pattern(path) ==
  LET file == SplitFile(path) IN Base(file) \o <<"*">> \o Ext(file) \o <<"*">>

\* filepath.Match for a pattern whose only metacharacter is *
RECURSIVE Match(_, _)
Match(pattern, name) ==
  IF pattern = <<>> THEN name = <<>>
  ELSE IF Head(pattern) = "*"
       THEN Match(Tail(pattern), name) \/ (name # <<>> /\ Match(pattern, Tail(name)))
       ELSE name # <<>> /\ Head(name) = Head(pattern)
              /\ Match(Tail(pattern), Tail(name))

\* byte value of the characters file names are made of
CharCode(c) ==
  CASE c = "-" -> 45 [] c = "." -> 46 [] c = "/" -> 47
    [] c = "0" -> 48 [] c = "1" -> 49 [] c = "2" -> 50 [] c = "3" -> 51
    [] c = "4" -> 52 [] c = "5" -> 53 [] c = "6" -> 54 [] c = "7" -> 55
    [] c = "8" -> 56 [] c = "9" -> 57
    [] c = "a" -> 97 [] c = "b" -> 98 [] c = "l" -> 108 [] c = "z" -> 122

\* string order: byte-wise, a proper prefix first
RECURSIVE Less(_, _)
Less(x, y) ==
  IF y = <<>> THEN FALSE
  ELSE IF x = <<>> THEN TRUE
  ELSE IF Head(x) = Head(y) THEN Less(Tail(x), Tail(y))
  ELSE CharCode(Head(x)) < CharCode(Head(y))

RECURSIVE Sorted(_)
Sorted(names) ==
  IF names = {} THEN <<>>
  ELSE LET least == CHOOSE n \in names : \A m \in names \ {n} : Less(n, m)
       IN <<least>> \o Sorted(names \ {least})

\* filepath.Glob: the matching names of the directory, sorted
Glob(pattern, dirFiles) == Sorted({n \in DOMAIN dirFiles : Match(pattern, n)})

(***************************************************************************)
(* The log directory                                                       *)
(***************************************************************************)
LiveName == SplitFile(LogPath)                       \* a.l
RotatedName == <<"a", "-", "1", ".", "l">>
CompressedName == <<"a", "-", "2", ".", "l", ".", "z">>
OtherName == <<"b", ".", "l">>                       \* another program's log
NewRotatedName(k) == <<"a", "-", ToString(2 + k), ".", "l">>

File(name, mode) == [n \in {name} |-> mode]
Without(dirFiles, name) == [n \in DOMAIN dirFiles \ {name} |-> dirFiles[n]]
With(dirFiles, name, mode) ==
  [n \in DOMAIN dirFiles \cup {name} |-> IF n = name THEN mode ELSE dirFiles[n]]

(***************************************************************************)
(* SecureRotatedLogs: Glob, then stat and chmod of each match in turn      *)
(***************************************************************************)
NotFound == "no such file or directory"
NotPermitted == "operation not permitted"

NeedsChmodIfWider(mode) == mode > SecureFileMode

\* fileInfo.Mode().Perm() != 0640
NeedsChmod(mode) == mode # SecureFileMode

mwUnchanged == UNCHANGED <<mwVars, fmtVars, mainVars>>

\* the loop moves to the next match, or the function returns nil after the last
NextMatch ==
  IF gi < Len(matches)
  THEN gi' = gi + 1 /\ gpc' = "stat" /\ gerr' = gerr
  ELSE gi' = gi /\ gpc' = "done" /\ gerr' = NoError

\* matches, err := filepath.Glob(pattern)
GuardGlob ==
  /\ gpc = "idle"
  /\ matches' = Glob(Pattern(LogPath), fs)
  /\ atStart' = fs
  /\ IF matches' = <<>>
     THEN gpc' = "done" /\ gi' = 0
     ELSE gpc' = "stat" /\ gi' = 1
  /\ UNCHANGED <<gerr, rotations, rotating, fsVars, secVars>>
  /\ mwUnchanged

\* fileInfo, err := os.Stat(match): an error ends the function
GuardStat ==
  /\ gpc = "stat"
  /\ LET match == matches[gi]
     IN IF match \notin DOMAIN fs
        THEN gerr' = NotFound /\ gpc' = "done" /\ gi' = gi
        ELSE IF NeedsChmod(fs[match])
             THEN gpc' = "chmod" /\ UNCHANGED <<gi, gerr>>
             ELSE NextMatch
  /\ UNCHANGED <<matches, atStart, rotations, rotating, fsVars, secVars>>
  /\ mwUnchanged

\* os.Chmod(match, 0640): an error ends the function
GuardChmod ==
  /\ gpc = "chmod"
  /\ LET match == matches[gi]
     IN IF match \notin DOMAIN fs
        THEN gerr' = NotFound /\ gpc' = "done" /\ gi' = gi /\ fs' = fs
        ELSE IF match \in denied
             THEN gerr' = NotPermitted /\ gpc' = "done" /\ gi' = gi /\ fs' = fs
             ELSE fs' = [fs EXCEPT ![match] = SecureFileMode] /\ NextMatch
  /\ UNCHANGED <<matches, atStart, rotations, rotating, dirExists, writable, denied,
                 umask, secVars>>
  /\ mwUnchanged

(***************************************************************************)
(* The sink rotating while the pass runs: retention deletes a rotated      *)
(* file; a rotation renames the live file to a new rotated name and then   *)
(* opens a new live file with the old one's mode (before umask).           *)
(***************************************************************************)
PassRunning == gpc \in {"stat", "chmod"}

RotationDelete(name) ==
  /\ PassRunning
  /\ name \in DOMAIN fs
  /\ name # LiveName /\ name # OtherName /\ name # rotating
  /\ fs' = Without(fs, name)
  /\ UNCHANGED <<dirExists, writable, denied, umask, guardVars, secVars>>
  /\ mwUnchanged

RotationRename ==
  /\ PassRunning
  /\ rotating = <<>>
  /\ rotations < MaxRotations
  /\ LiveName \in DOMAIN fs
  /\ rotations' = rotations + 1
  /\ rotating' = NewRotatedName(rotations')
  /\ fs' = With(Without(fs, LiveName), rotating', fs[LiveName])
  /\ UNCHANGED <<dirExists, writable, denied, umask, gpc, matches, gi, gerr, atStart,
                 secVars>>
  /\ mwUnchanged

RotationOpenNew ==
  /\ PassRunning
  /\ rotating # <<>>
  /\ fs' = With(fs, LiveName, AndNot(fs[rotating], umask))
  /\ rotating' = <<>>
  /\ UNCHANGED <<dirExists, writable, denied, umask, rotations, gpc, matches, gi, gerr,
                 atStart, secVars>>
  /\ mwUnchanged

\* the directory a pass may find: the live file, rotated siblings and another
\* program's log, each absent or present with some mode; at most one file of
\* the set owned by somebody else
DirListings ==
  LET Choice(name) == {<<>>} \cup {File(name, m) : m \in FileModes}
      Merge(f, g) == [n \in DOMAIN f \cup DOMAIN g |-> IF n \in DOMAIN f THEN f[n] ELSE g[n]]
  IN {Merge(Merge(a, b), Merge(c, d)) :
        a \in Choice(LiveName), b \in Choice(RotatedName),
        c \in Choice(CompressedName),
        d \in {<<>>, File(OtherName, Oct(6, 4, 4))}}

InitGuardian ==
  /\ fs \in DirListings
  /\ dirExists = TRUE /\ writable = TRUE
  /\ umask \in Umasks
  /\ denied \in {{}} \cup {{n} : n \in DOMAIN fs \ {OtherName}}
  /\ InitGuardIdle /\ InitSecureIdle /\ InitMwIdle /\ InitFormatIdle /\ InitMainIdle

NextGuardian ==
  \/ GuardGlob
  \/ GuardStat
  \/ GuardChmod
  \/ \E name \in {RotatedName, CompressedName} : RotationDelete(name)
  \/ RotationRename
  \/ RotationOpenNew

SpecGuardian == InitGuardian /\ [][NextGuardian]_vars

(***************************************************************************)
(* secureLogFile: MkdirAll, Stat, then create with 0640 or chmod to 0640   *)
(***************************************************************************)
\* the state a call leaves and the error it returns, from the state it finds
secureLogFile(path, dir, files) ==
  LET name == SplitFile(path)
  IN IF ~dir /\ ~writable
     THEN \* os.MkdirAll(logDir, 0750) fails
          [dir |-> dir, files |-> files, err |-> "failed to create log directory"]
     ELSE IF name \notin DOMAIN files
     THEN \* os.IsNotExist(err): os.OpenFile(logPath, O_CREATE|O_APPEND|O_WRONLY, 0640)
          IF ~writable
          THEN [dir |-> TRUE, files |-> files, err |-> "failed to create log file"]
          ELSE [dir |-> TRUE,
                files |-> With(files, name, AndNot(SecureFileMode, umask)),
                err |-> NoError]
     ELSE IF files[name] # SecureFileMode
     THEN \* os.Chmod(logPath, 0640)
          IF name \in denied
          THEN [dir |-> TRUE, files |-> files,
                err |-> "failed to set log file permissions"]
          ELSE [dir |-> TRUE, files |-> [files EXCEPT ![name] = SecureFileMode],
                err |-> NoError]
     ELSE [dir |-> TRUE, files |-> files, err |-> NoError]

\* one call of secureLogFile(config.LogPath), as NewApacheLogger makes it
SecureCall ==
  /\ Len(secCalls) < MaxSecureCalls
  /\ LET after == secureLogFile(LogPath, dirExists, fs)
     IN /\ dirExists' = after.dir
        /\ fs' = after.files
        /\ secCalls' = Append(secCalls, after.err)
  /\ secBefore' = <<dirExists, fs>>
  /\ UNCHANGED <<writable, denied, umask, guardVars>>
  /\ mwUnchanged

\* the path before the first call: no directory, or a directory without the
\* file, or the file with some mode
InitSecure ==
  /\ \E present \in BOOLEAN :
       /\ dirExists = present
       /\ fs \in IF present
                 THEN {<<>>} \cup {File(LiveName, m) : m \in FileModes}
                 ELSE {<<>>}
  /\ writable \in BOOLEAN
  /\ umask \in Umasks
  /\ denied \in {{}, {LiveName}}
  /\ InitGuardIdle /\ InitSecureIdle /\ InitMwIdle /\ InitFormatIdle /\ InitMainIdle

NextSecure == SecureCall

SpecSecure == InitSecure /\ [][NextSecure]_vars

(***************************************************************************)
(* SpecFormat: observations formatted in the Common and Combined formats   *)
(***************************************************************************)
InitFormat ==
  /\ fmtHeader \in Headers
  /\ fmtWrapper \in Wrappers
  /\ fmtLines = NoLines
  /\ InitMwIdle /\ InitFsIdle /\ InitGuardIdle /\ InitSecureIdle /\ InitMainIdle

NextFormat ==
  \/ \E h \in Headers : \E w \in Wrappers : FormatObserve(h, w)
  \/ \E fmt \in LogFormats : FormatCall(fmt)

SpecFormat == InitFormat /\ [][NextFormat]_vars

(***************************************************************************)
(* main: the guardian goroutine (ticker loop), the shutdown sequence and   *)
(* the exit of the process.  A SecureRotatedLogs call is one step here.    *)
(***************************************************************************)
\* the loop over the matches, run without interruption
RECURSIVE SecureEach(_, _)
SecureEach(ms, files) ==
  IF ms = <<>> THEN [files |-> files, err |-> NoError]
  ELSE IF ~NeedsChmod(files[Head(ms)]) THEN SecureEach(Tail(ms), files)
  ELSE IF Head(ms) \in denied THEN [files |-> files, err |-> NotPermitted]
  ELSE SecureEach(Tail(ms), [files EXCEPT ![Head(ms)] = SecureFileMode])

\* SecureRotatedLogs(logPath): the directory it leaves and the error it returns;
\* the pattern and the matches are values computed once
SecureRotatedLogs(path, files) ==
  LET results == {SecureEach(ms, files) :
                    ms \in {Glob(pattern, files) : pattern \in {Pattern(path)}}}
  IN CHOOSE res \in results : TRUE

Running == mainPc # "exited"

\* os.Exit, or main returning: the process ends and its goroutines with it
Exit(code) ==
  /\ mainPc' = "exited"
  /\ exitCode' = code
  /\ taskPc' = IF taskPc = "returned" THEN "returned" ELSE "killed"

mainOthersUnchanged ==
  UNCHANGED <<mwVars, fmtVars, guardVars, secVars, dirExists, writable, denied, umask>>

\* the ticker sends on ticker.C; the tick is dropped when the channel is full
Tick ==
  /\ Running /\ taskPc \in {"select", "pass"}
  /\ ticks < MaxTicks
  /\ ticks' = ticks + 1
  /\ tickReady' = TRUE
  /\ UNCHANGED <<mainPc, taskPc, ctxDone, taken, passes, reported, serverDown,
                 finalPasses, exitCode, fs>>
  /\ mainOthersUnchanged

\* select: case <-ticker.C
TaskReceiveTick ==
  /\ Running /\ taskPc = "select"
  /\ tickReady
  /\ tickReady' = FALSE
  /\ taken' = taken + 1
  /\ taskPc' = "pass"
  /\ UNCHANGED <<mainPc, ticks, ctxDone, passes, reported, serverDown, finalPasses,
                 exitCode, fs>>
  /\ mainOthersUnchanged

TaskAfterPassReturnOnError(err) == IF err = NoError THEN "select" ELSE "returned"

\* where the goroutine continues after the call, whatever it returned: the for loop
TaskAfterPass(err) == "select"

\* SecureRotatedLogs(config.LogPath) returns; an error is logged
TaskPass ==
  /\ Running /\ taskPc = "pass"
  /\ LET res == SecureRotatedLogs(LogPath, fs)
     IN /\ fs' = res.files
        /\ reported' = IF res.err # NoError THEN reported + 1 ELSE reported
        /\ taskPc' = TaskAfterPass(res.err)
  /\ passes' = passes + 1
  /\ UNCHANGED <<mainPc, tickReady, ticks, ctxDone, taken, serverDown, finalPasses,
                 exitCode>>
  /\ mainOthersUnchanged

\* select: case <-ctx.Done(): return (and the deferred ticker.Stop)
TaskCancelled ==
  /\ Running /\ taskPc = "select"
  /\ ctxDone
  /\ taskPc' = "returned"
  /\ UNCHANGED <<mainPc, tickReady, ticks, ctxDone, taken, passes, reported,
                 serverDown, finalPasses, exitCode, fs>>
  /\ mainOthersUnchanged

\* <-quit: SIGINT or SIGTERM arrives
MainSignal ==
  /\ mainPc = "quit"
  /\ mainPc' = "cancel"
  /\ UNCHANGED <<taskPc, tickReady, ticks, ctxDone, taken, passes, reported,
                 serverDown, finalPasses, exitCode, fs>>
  /\ mainOthersUnchanged

\* cancel()
MainCancel ==
  /\ mainPc = "cancel"
  /\ ctxDone' = TRUE
  /\ mainPc' = "shutdown"
  /\ UNCHANGED <<taskPc, tickReady, ticks, taken, passes, reported, serverDown,
                 finalPasses, exitCode, fs>>
  /\ mainOthersUnchanged

\* server.Shutdown(shutdownCtx) returns nil
MainShutdown ==
  /\ mainPc = "shutdown"
  /\ serverDown' = TRUE
  /\ mainPc' = "final"
  /\ UNCHANGED <<taskPc, tickReady, ticks, ctxDone, taken, passes, reported,
                 finalPasses, exitCode, fs>>
  /\ mainOthersUnchanged

\* server.Shutdown returns an error (the 10 s deadline passed with connections
\* still active): serverLogger.Fatal logs and calls os.Exit(1)
MainShutdownFatal ==
  /\ mainPc = "shutdown"
  /\ Exit(1)
  /\ UNCHANGED <<tickReady, ticks, ctxDone, taken, passes, reported, serverDown,
                 finalPasses, fs>>
  /\ mainOthersUnchanged

\* the final SecureRotatedLogs(config.LogPath) of main returns
MainFinalPass ==
  /\ mainPc = "final"
  /\ fs' = SecureRotatedLogs(LogPath, fs).files
  /\ finalPasses' = finalPasses + 1
  /\ mainPc' = "return"
  /\ UNCHANGED <<taskPc, tickReady, ticks, ctxDone, taken, passes, reported,
                 serverDown, exitCode>>
  /\ mainOthersUnchanged

\* main returns: the process exits with status 0
MainReturn ==
  /\ mainPc = "return"
  /\ Exit(0)
  /\ UNCHANGED <<tickReady, ticks, ctxDone, taken, passes, reported, serverDown,
                 finalPasses, fs>>
  /\ mainOthersUnchanged

\* server.ListenAndServe returns another error than http.ErrServerClosed while
\* the server is serving: serverLogger.Fatal logs and calls os.Exit(1)
ServerFatal ==
  /\ mainPc \in {"quit", "cancel", "shutdown"}
  /\ Exit(1)
  /\ UNCHANGED <<tickReady, ticks, ctxDone, taken, passes, reported, serverDown,
                 finalPasses, fs>>
  /\ mainOthersUnchanged

\* the log directory while the server runs: the live file and a rotated file with
\* some mode, the rotated one possibly owned by somebody else
InitMain ==
  /\ \E m1, m2 \in FileModes :
       fs = With(File(LiveName, m1), RotatedName, m2)
  /\ dirExists = TRUE /\ writable = TRUE /\ umask = 0
  /\ denied \in {{}, {RotatedName}}
  /\ InitMainIdle
  /\ InitMwIdle /\ InitGuardIdle /\ InitSecureIdle /\ InitFormatIdle

NextMain ==
  \/ Tick
  \/ TaskReceiveTick
  \/ TaskPass
  \/ TaskCancelled
  \/ MainSignal
  \/ MainCancel
  \/ MainShutdown
  \/ MainShutdownFatal
  \/ MainFinalPass
  \/ MainReturn
  \/ ServerFatal

\* the goroutines are scheduled and their calls return; select chooses among its
\* ready cases at random, so a case that is ready again and again is taken; the
\* signal, the ticks and the failures are the environment's
FairMain ==
  /\ WF_vars(TaskReceiveTick) /\ WF_vars(TaskPass) /\ SF_vars(TaskCancelled)
  /\ WF_vars(MainCancel) /\ WF_vars(MainShutdown \/ MainShutdownFatal)
  /\ WF_vars(MainFinalPass) /\ WF_vars(MainReturn)

SpecMain == InitMain /\ [][NextMain]_vars /\ FairMain

(***************************************************************************)
(* Properties of the middleware, checked under Spec                        *)
(***************************************************************************)
Finished(r) == pc[r] \in {"done", "panicked"}
Formatted(r) == pc[r] \in {"info", "done"}
FileSet == live \o Flatten(backups)
Occurs(line, lines) == Cardinality({i \in DOMAIN lines : lines[i] = line})
OwnLine(r) == formatLogEntry(Request(r), wrapper[r], format)
Logged(r) == \E i \in DOMAIN order : order[i].req = r /\ order[i].ok
Dropped(r) == \E i \in DOMAIN order : order[i].req = r /\ ~order[i].ok

\* C1: after any sequence of Writes the wrapper's size is the sum of the counts
\* the underlying writer returned (the bytes it accepted), and the last Write
\* returned to the handler the very (count, error) the underlying writer returned.
WriteCountsAccepted ==
  \A r \in Reqs :
    /\ wrapper[r].size = under[r].written
    /\ lastWrite[r].ret = lastWrite[r].under

\* a second Write that was cut short with an error, after a first that accepted bytes
WriteCountsWitness ==
  \E r \in Reqs :
    /\ lastWrite[r].under[2] # NoError
    /\ lastWrite[r].under[1] > 0
    /\ wrapper[r].size > lastWrite[r].under[1]

\* C2: a request whose handler never called WriteHeader is logged with status 200,
\* whether or not it wrote a body.
NoHeaderLogs200 ==
  \A r \in Reqs :
    (Formatted(r) /\ hdrCount[r] = 0) =>
      entry[r] = formatLogEntry(Request(r),
                                [status |-> 200, size |-> under[r].written], format)

\* a handler that only wrote a body, its line appended to the live file
NoHeaderWitness ==
  \E r \in Reqs :
    /\ pc[r] = "done" /\ hdrCount[r] = 0 /\ under[r].written > 0
    /\ Occurs(entry[r], live) = 1

\* C3 (as claimed): after more than one WriteHeader call the wrapper holds the
\* first status set, and that status is the one formatted into the line.
FirstStatusRecorded ==
  \A r \in Reqs :
    hdrCount[r] > 1 =>
      /\ wrapper[r].status = hdrFirst[r]
      /\ Formatted(r) =>
           entry[r] = formatLogEntry(Request(r),
                        [status |-> hdrFirst[r], size |-> under[r].written], format)

\* C4 (as claimed): every request gets exactly one logger.Info call, made only
\* after the handler finished, whether the handler returned or panicked.
OneLinePerRequest ==
  \A r \in Reqs :
    /\ infoCalls[r] <= 1
    /\ infoCalls[r] = 1 => pc[r] \in {"info", "done"}
    /\ Finished(r) => infoCalls[r] = 1

FailedAppendNonFatal ==
  [][\A r \in Reqs :
       /\ (pc[r] = "info" /\ order' = Append(order, [req |-> r, ok |-> FALSE])) =>
             /\ pc'[r] = "done"
             /\ under' = under /\ wrapper' = wrapper
             /\ live' = live /\ backups' = backups
             /\ \A q \in Reqs \ {r} : pc'[q] = pc[q]
       /\ (/\ pc[r] = "info" /\ order' = Append(order, [req |-> r, ok |-> TRUE])
           /\ \E i \in DOMAIN order : ~order[i].ok) =>
             /\ pc'[r] = "done"
             /\ live'[Len(live')] = entry[r]]_vars

\* an append failed and a later one succeeded
FailedAppendWitness ==
  \E i, j \in DOMAIN order :
    /\ i < j /\ ~order[i].ok /\ order[j].ok
    /\ pc[order[i].req] = "done" /\ pc[order[j].req] = "done"
    /\ under[order[i].req].written > 0

(***************************************************************************)
(* Properties of SecureRotatedLogs, checked under SpecGuardian             *)
(***************************************************************************)
HasPrefix(name, prefix) ==
  Len(name) >= Len(prefix) /\ SubSeq(name, 1, Len(prefix)) = prefix
Contains(name, part) ==
  \E i \in 1..(Len(name) - Len(part) + 1) : SubSeq(name, i, i + Len(part) - 1) = part

\* a name of the log file set of a.l: it begins with a and has .l in the rest
IsLogFile(name) ==
  /\ HasPrefix(name, <<"a">>)
  /\ Contains(SubSeq(name, 2, Len(name)), <<".", "l">>)

PassDone == gpc = "done"

VanishedCandidateSkipped ==
  (PassDone /\ rotations = 0) =>
    /\ gerr # NotFound
    /\ gerr # NotPermitted =>
         \A i \in DOMAIN matches :
           (matches[i] \in DOMAIN fs) => fs[matches[i]] = SecureFileMode

\* C8 (as claimed): when the chmod of one candidate fails with another error than
\* "not found", the error is returned and every other candidate of the
\* enumeration that is still there has been brought to 0640.
OtherErrorDoesNotAbort ==
  (PassDone /\ gerr = NotPermitted) =>
    \A i \in DOMAIN matches :
      (matches[i] \in DOMAIN fs /\ matches[i] \notin denied) =>
        fs[matches[i]] = SecureFileMode

(***************************************************************************)
(* Properties of secureLogFile, checked under SpecSecure                   *)
(***************************************************************************)
\* C9 (as claimed): after a call that returned nil the directory exists and the
\* file exists with mode exactly 0640; a second call right after a successful
\* one returns nil too and changes nothing.
SecureLogFileIdempotent ==
  LET n == Len(secCalls)
  IN /\ (n >= 1 /\ secCalls[n] = NoError) =>
          /\ dirExists
          /\ LiveName \in DOMAIN fs
          /\ fs[LiveName] = SecureFileMode
     /\ (n >= 2 /\ secCalls[n - 1] = NoError) =>
          /\ secCalls[n] = NoError
          /\ <<dirExists, fs>> = secBefore

(***************************************************************************)
(* Properties of formatLogEntry, checked under SpecFormat                  *)
(***************************************************************************)
HasSuffix(line, suffix) ==
  Len(line) >= Len(suffix)
    /\ SubSeq(line, Len(line) - Len(suffix) + 1, Len(line)) = suffix

Quoted(field) == "\"" \o field \o "\""

\* what the line shows for a header value: - when the header is absent or empty
Shown(value) == IF value = "" THEN "-" ELSE value

\* C11: for one observation, the Combined line is the Common line followed by
\* the quoted Referer and then the quoted User-Agent, an absent or empty one
\* shown as "-" and never as empty quotes; the Common line carries the status
\* and size last and holds neither quoted field.
CombinedExtendsCommon ==
  LET common == fmtLines[CommonLogFormat]
      combined == fmtLines[CombinedLogFormat]
      referer == Quoted(Shown(HeaderGet(fmtHeader, RefererKey)))
      userAgent == Quoted(Shown(HeaderGet(fmtHeader, UserAgentKey)))
  IN /\ (common # "" /\ combined # "") =>
          combined = common \o " " \o referer \o " " \o userAgent
     /\ combined # "" =>
          /\ HasSuffix(combined, " " \o referer \o " " \o userAgent)
          /\ ~Contains(combined, Quoted(""))
     /\ common # "" =>
          /\ HasSuffix(common, " " \o ToString(fmtWrapper.status)
                                  \o " " \o ToString(fmtWrapper.size))
          /\ ~Contains(common, referer)
          /\ ~Contains(common, userAgent)

\* one observation formatted both ways, the Referer absent and the User-Agent
\* sent empty: the Combined line ends with "-" "-"
CombinedDashWitness ==
  /\ fmtLines[CommonLogFormat] # "" /\ fmtLines[CombinedLogFormat] # ""
  /\ RefererKey \notin DOMAIN fmtHeader
  /\ UserAgentKey \in DOMAIN fmtHeader /\ fmtHeader[UserAgentKey] = <<"">>
  /\ HasSuffix(fmtLines[CombinedLogFormat], " \"-\" \"-\"")
  /\ fmtWrapper.size > 0

(***************************************************************************)
(* Properties of main, checked under SpecMain                              *)
(***************************************************************************)
TaskStopped == taskPc \in {"returned", "killed"}
InPass == IF taskPc = "pass" THEN 1 ELSE 0

TickPasses ==
  /\ Running => taken = passes + InPass
  /\ taskPc = "returned" => ctxDone
  /\ reported <= passes

\* a call of the goroutine that returns, with an error or without, leaves the
\* goroutine at its select and main and the process as they were; the error is
\* logged once
TickErrorReported ==
  (passes' = passes + 1) =>
    /\ taskPc' = "select"
    /\ mainPc' = mainPc /\ exitCode' = exitCode /\ ctxDone' = ctxDone
    /\ reported' = reported + (IF SecureRotatedLogs(LogPath, fs).err # NoError
                               THEN 1 ELSE 0)

\* main runs the final pass once, after server.Shutdown returned nil and after
\* cancel(), and returns only after it; an exit through Fatal skips it
FinalPassOnReturn ==
  /\ finalPasses <= 1
  /\ finalPasses = 1 => (serverDown /\ ctxDone)
  /\ (mainPc = "exited" /\ exitCode = 0) => (serverDown /\ finalPasses = 1)
  /\ (mainPc = "exited" /\ exitCode # 0) => finalPasses = 0
  /\ (serverDown /\ mainPc = "exited") => finalPasses = 1

=============================================================================
